---- MODULE Spec2Model ----
(***************************************************************************)
(* Model of the `gh run view` command, pkg/cmd/run/view/view.go:           *)
(* input resolution in the cobra RunE closure, the sequential retrieval of *)
(* runView, and the rendering and exit decision of renderRun.              *)
(*                                                                         *)
(* Collaborators (HTTP client factory, base-repository resolver,           *)
(* PromptForRun, GetRun, GetJobs, GetAnnotations) are the environment:     *)
(* each call either fails or returns a value drawn from a small set.       *)
(* Written lines are records naming the line and the data printed in it;   *)
(* glyphs and colours are not modelled.                                    *)
(***************************************************************************)
EXTENDS Naturals, Sequences, FiniteSets

VARIABLES
    args,          \* positional arguments of the invocation (at most one)
    stdoutTTY,     \* opts.IO.IsStdoutTTY()
    stdinTTY,      \* opts.IO.IsStdinTTY()
    runFSet,       \* whether NewCmdView was given a non-nil runF
    opts,          \* the ViewOptions value
    failureClass,  \* the conclusions shared.IsFailureState answers true for
    pc,            \* position of the command
    runID,         \* runView's local runID
    run,           \* runView's local run
    jobs,          \* runView's local jobs
    jobIdx,        \* index of the job the annotation loop is at
    annotations,   \* runView's local annotations
    annotationErr, \* runView's local annotationErr (TRUE when non-nil)
    progress,      \* whether the progress indicator is active
    calls,         \* the collaborator calls made so far, in order
    out,           \* the lines written to opts.IO.Out, in order
    ret            \* the error the command returned

vars == <<args, stdoutTTY, stdinTTY, runFSet, opts, failureClass, pc, runID, run,
          jobs, jobIdx, annotations, annotationErr, progress, calls, out, ret>>

\* ---------------------------------------------------------------- bounds
MaxJobs == 2
MaxAnn == 1

\* ---------------------------------------------------------------- values
RunIDs == {"r1", "r2"}
Failure == "failure"
Conclusions == {"success", "failure", "timed_out"}
StepLists == {<< >>, <<"s1">>, <<"s2", "s1">>}
AnnValues == {"a1", "a2"}

SeqsUpTo(S, n) == UNION {[1..k -> S] : k \in 0..n}

Job == [Conclusion : Conclusions, Steps : StepLists]
Run == [ID : RunIDs, Conclusion : Conclusions]
NoRun == [ID |-> "", Conclusion |-> ""]

\* The failure-class predicate lives in the shared package; it holds of
\* "failure" and of whichever further conclusions that package counts as failing.
FailureClasses == {S \in SUBSET Conclusions : Failure \in S /\ "success" \notin S}
IsFailureState(c) == c \in failureClass

\* ---------------------------------------------------------------- errors
Err(kind, ctx, cause) == [kind |-> kind, ctx |-> ctx, cause |-> cause]
NotReturned == Err("pending", "", "")
Nil == Err("nil", "", "")
SilentError == Err("SilentError", "", "")
FlagError == Err("FlagError", "expected a run ID", "")
\* the error value a failing collaborator returns
CollabErr(fn) == Err("collaborator", "", fn)
\* mutant: the error is passed on without its stage context
WrapErr_NoContext(ctx, e) == e

\* fmt.Errorf("<ctx>: %w", err)
WrapErr(ctx, e) == Err("wrapped", ctx, e.cause)

\* whatever the injected runF returns
RunFResult == Err("runF", "", "")

Call(fn, id, job, ok) == [fn |-> fn, id |-> id, job |-> job, ok |-> ok]

\* ---------------------------------------------------------------- RunE
\* mutant: the non-interactive case without an argument is not rejected
ResolveInput_NoUsageError(a, terminal) ==
    IF Len(a) > 0 THEN [RunID |-> a[1], Prompt |-> FALSE, usage |-> FALSE]
    ELSE [RunID |-> "", Prompt |-> TRUE, usage |-> FALSE]

\* The three-way decision of the RunE closure.
ResolveInput(a, terminal) ==
    IF Len(a) > 0 THEN [RunID |-> a[1], Prompt |-> FALSE, usage |-> FALSE]
    ELSE IF ~terminal THEN [RunID |-> "", Prompt |-> FALSE, usage |-> TRUE]
    ELSE [RunID |-> "", Prompt |-> TRUE, usage |-> FALSE]

RunE ==
    /\ pc = "RunE"
    /\ LET terminal == stdoutTTY /\ stdinTTY
           r == ResolveInput(args, terminal)
           o == [opts EXCEPT !.ShowProgress = terminal,
                             !.RunID = r.RunID,
                             !.Prompt = r.Prompt]
       IN /\ opts' = o
          /\ IF r.usage
             THEN /\ pc' = "done"
                  /\ ret' = FlagError
                  /\ calls' = calls
             ELSE IF runFSet
             THEN /\ pc' = "done"
                  /\ ret' = RunFResult
                  /\ calls' = Append(calls, Call("runF", o.RunID, 0, TRUE))
             ELSE /\ pc' = "HttpClient"
                  /\ ret' = ret
                  /\ calls' = calls
    /\ UNCHANGED <<args, stdoutTTY, stdinTTY, runFSet, failureClass, runID, run, jobs,
                   jobIdx, annotations, annotationErr, progress, out>>

\* ---------------------------------------------------------------- renderRun
Line(kind, text) == [kind |-> kind, text |-> text]

\* the blank line, the header line, the "Triggered via" line, the blank line
Header(r) ==
    << Line("blank", << >>),
       Line("header", <<r.Conclusion, r.ID>>),
       Line("triggered", << >>),
       Line("blank", << >>) >>

\* mutant: the branch is taken whenever the run failed, whatever its jobs
EmptyJobsFailure_AnyJobs(r, js) == r.Conclusion = Failure

\* the condition of the workflow-file-issue branch
EmptyJobsFailure(r, js) == Len(js) = 0 /\ r.Conclusion = Failure

\* the lines of the workflow-file-issue branch
IssueLines(r) ==
    << Line("issue", << >>),
       Line("blank", << >>),
       Line("moreinfo", <<r.ID>>) >>

\* mutant: the exit-status flag is not consulted
ExitSignal_IgnoresFlag(o, r) ==
    IF IsFailureState(r.Conclusion) THEN SilentError ELSE Nil

\* the value renderRun returns once it has written its lines
ExitSignal(o, r) ==
    IF o.ExitStatus /\ IsFailureState(r.Conclusion) THEN SilentError ELSE Nil

\* whether the steps of job j are written
StepsShown(o, j) == o.Verbose \/ IsFailureState(j.Conclusion)

\* mutant: the steps are written last to first
JobBlock_StepsReversed(o, j) ==
    << Line("job", <<j.Conclusion>> \o j.Steps) >>
    \o (IF StepsShown(o, j)
        THEN [k \in 1..Len(j.Steps) |-> Line("step", <<j.Steps[Len(j.Steps) + 1 - k]>>)]
        ELSE << >>)

\* one job's line, then its step lines when they are shown
JobBlock(o, j) ==
    << Line("job", <<j.Conclusion>> \o j.Steps) >>
    \o (IF StepsShown(o, j)
        THEN [k \in 1..Len(j.Steps) |-> Line("step", <<j.Steps[k]>>)]
        ELSE << >>)

RECURSIVE JobsLines(_, _)
JobsLines(o, js) ==
    IF js = << >> THEN << >>
    ELSE JobBlock(o, Head(js)) \o JobsLines(o, Tail(js))

\* one annotation: its message line, its location line, and the blank line
\* the location's trailing newline adds
AnnotationBlock(a) ==
    << Line("annotation", <<a>>), Line("location", <<a>>), Line("blank", << >>) >>

RECURSIVE AnnotationsLines(_)
AnnotationsLines(as) ==
    IF as = << >> THEN << >>
    ELSE AnnotationBlock(Head(as)) \o AnnotationsLines(Tail(as))

AnnotationSection(as) ==
    IF Len(as) > 0
    THEN << Line("blank", << >>), Line("ANNOTATIONS", << >>) >> \o AnnotationsLines(as)
    ELSE << >>

Footer(r) ==
    << Line("blank", << >>), Line("hint", << >>), Line("viewOnGitHub", <<r.ID>>) >>

RenderRun(o, r, js, as) ==
    IF EmptyJobsFailure(r, js)
    THEN [out |-> Header(r) \o IssueLines(r),
          err |-> IF o.ExitStatus /\ IsFailureState(r.Conclusion)
                  THEN SilentError ELSE Nil]
    ELSE [out |-> Header(r) \o << Line("JOBS", << >>) >> \o JobsLines(o, js)
                  \o AnnotationSection(as) \o Footer(r),
          err |-> ExitSignal(o, r)]

\* ---------------------------------------------------------------- runView
Return(e) == /\ pc' = "done"
             /\ ret' = e

CallHttpClient ==
    /\ pc = "HttpClient"
    /\ \E ok \in BOOLEAN :
         /\ calls' = Append(calls, Call("HttpClient", "", 0, ok))
         /\ IF ok
            THEN pc' = "BaseRepo" /\ ret' = ret
            ELSE Return(WrapErr("failed to create http client", CollabErr("HttpClient")))
    /\ UNCHANGED <<args, stdoutTTY, stdinTTY, runFSet, opts, failureClass, runID, run,
                   jobs, jobIdx, annotations, annotationErr, progress, out>>

CallBaseRepo ==
    /\ pc = "BaseRepo"
    /\ \E ok \in BOOLEAN :
         /\ calls' = Append(calls, Call("BaseRepo", "", 0, ok))
         /\ IF ok
            THEN pc' = "Prompt" /\ ret' = ret
            ELSE Return(WrapErr("failed to determine base repo", CollabErr("BaseRepo")))
    /\ UNCHANGED <<args, stdoutTTY, stdinTTY, runFSet, opts, failureClass, runID, run,
                   jobs, jobIdx, annotations, annotationErr, progress, out>>

\* what runView returns when PromptForRun fails
PromptFailure(e) == e

\* mutant: the answer of the prompt is dropped and opts.RunID is fetched
SelectRun_IgnoresAnswer ==
    /\ pc = "Prompt"
    /\ IF opts.Prompt
       THEN \E ok \in BOOLEAN, id \in RunIDs :
              /\ calls' = Append(calls, Call("PromptForRun", IF ok THEN id ELSE "", 0, ok))
              /\ IF ok
                 THEN runID' = opts.RunID /\ pc' = "GetRun" /\ ret' = ret
                 ELSE runID' = "" /\ Return(PromptFailure(CollabErr("PromptForRun")))
       ELSE /\ runID' = opts.RunID
            /\ pc' = "GetRun"
            /\ UNCHANGED <<calls, ret>>
    /\ UNCHANGED <<args, stdoutTTY, stdinTTY, runFSet, opts, failureClass, run,
                   jobs, jobIdx, annotations, annotationErr, progress, out>>

SelectRun ==
    /\ pc = "Prompt"
    /\ IF opts.Prompt
       THEN \E ok \in BOOLEAN, id \in RunIDs :
              /\ calls' = Append(calls, Call("PromptForRun", IF ok THEN id ELSE "", 0, ok))
              /\ IF ok
                 THEN runID' = id /\ pc' = "GetRun" /\ ret' = ret
                 ELSE runID' = "" /\ Return(PromptFailure(CollabErr("PromptForRun")))
       ELSE /\ runID' = opts.RunID
            /\ pc' = "GetRun"
            /\ UNCHANGED <<calls, ret>>
    /\ UNCHANGED <<args, stdoutTTY, stdinTTY, runFSet, opts, failureClass, run,
                   jobs, jobIdx, annotations, annotationErr, progress, out>>

FetchRun ==
    /\ pc = "GetRun"
    /\ progress' = IF opts.ShowProgress THEN TRUE ELSE progress
    /\ \E ok \in BOOLEAN, c \in Conclusions :
         /\ calls' = Append(calls, Call("GetRun", runID, 0, ok))
         /\ IF ok
            THEN run' = [ID |-> runID, Conclusion |-> c] /\ pc' = "GetJobs" /\ ret' = ret
            ELSE run' = run /\ Return(WrapErr("failed to get run", CollabErr("GetRun")))
    /\ UNCHANGED <<args, stdoutTTY, stdinTTY, runFSet, opts, failureClass, runID,
                   jobs, jobIdx, annotations, annotationErr, out>>

\* the job lists GetJobs answers with
FetchedJobs == {j \in Job : j.Steps = <<"s2", "s1">>}

FetchJobs ==
    /\ pc = "GetJobs"
    /\ \E ok \in BOOLEAN, js \in SeqsUpTo(FetchedJobs, MaxJobs) :
         /\ calls' = Append(calls, Call("GetJobs", run.ID, 0, ok))
         /\ IF ok
            THEN jobs' = js /\ jobIdx' = 1 /\ pc' = "GetAnnotations" /\ ret' = ret
            ELSE /\ UNCHANGED <<jobs, jobIdx>>
                 /\ Return(WrapErr("failed to get jobs", CollabErr("GetJobs")))
    /\ UNCHANGED <<args, stdoutTTY, stdinTTY, runFSet, opts, failureClass, runID, run,
                   annotations, annotationErr, progress, out>>

\* the annotations GetAnnotations answers with
FetchedAnnotations == {"a1"}

\* mutant: a failing fetch does not leave the loop
FetchAnnotations_NoBreak ==
    /\ pc = "GetAnnotations"
    /\ jobIdx <= Len(jobs)
    /\ \E ok \in BOOLEAN, as \in SeqsUpTo(FetchedAnnotations, MaxAnn) :
         /\ calls' = Append(calls, Call("GetAnnotations", "", jobIdx, ok))
         /\ jobIdx' = jobIdx + 1
         /\ pc' = pc
         /\ IF ok
            THEN annotations' = annotations \o as /\ annotationErr' = annotationErr
            ELSE annotationErr' = TRUE /\ annotations' = annotations
    /\ UNCHANGED <<args, stdoutTTY, stdinTTY, runFSet, opts, failureClass, runID, run,
                   jobs, progress, out, ret>>

\* one iteration of the loop over jobs
FetchAnnotations ==
    /\ pc = "GetAnnotations"
    /\ jobIdx <= Len(jobs)
    /\ \E ok \in BOOLEAN, as \in SeqsUpTo(FetchedAnnotations, MaxAnn) :
         /\ calls' = Append(calls, Call("GetAnnotations", "", jobIdx, ok))
         /\ IF ok
            THEN /\ annotations' = annotations \o as
                 /\ jobIdx' = jobIdx + 1
                 /\ UNCHANGED <<annotationErr, pc>>
            ELSE /\ annotationErr' = TRUE
                 /\ pc' = "AfterLoop"
                 /\ UNCHANGED <<annotations, jobIdx>>
    /\ UNCHANGED <<args, stdoutTTY, stdinTTY, runFSet, opts, failureClass, runID, run,
                   jobs, progress, out, ret>>

\* mutant: the annotation error is not checked
FinishRetrieval_NoErrCheck ==
    /\ \/ pc = "AfterLoop"
       \/ pc = "GetAnnotations" /\ jobIdx > Len(jobs)
    /\ progress' = IF opts.ShowProgress THEN FALSE ELSE progress
    /\ pc' = "renderRun"
    /\ UNCHANGED <<args, stdoutTTY, stdinTTY, runFSet, opts, failureClass, runID, run,
                   jobs, jobIdx, annotations, annotationErr, calls, out, ret>>

\* the loop is left: the annotation error check, then the end of the progress indicator
FinishRetrieval ==
    /\ \/ pc = "AfterLoop"
       \/ pc = "GetAnnotations" /\ jobIdx > Len(jobs)
    /\ IF annotationErr
       THEN /\ Return(WrapErr("failed to get annotations", CollabErr("GetAnnotations")))
            /\ progress' = progress
       ELSE /\ progress' = IF opts.ShowProgress THEN FALSE ELSE progress
            /\ pc' = "renderRun"
            /\ ret' = ret
    /\ UNCHANGED <<args, stdoutTTY, stdinTTY, runFSet, opts, failureClass, runID, run,
                   jobs, jobIdx, annotations, annotationErr, calls, out>>

Render ==
    /\ pc = "renderRun"
    /\ LET res == RenderRun(opts, run, jobs, annotations)
       IN /\ out' = res.out
          /\ Return(res.err)
    /\ calls' = Append(calls, Call("renderRun", run.ID, 0, TRUE))
    /\ UNCHANGED <<args, stdoutTTY, stdinTTY, runFSet, opts, failureClass, runID, run,
                   jobs, jobIdx, annotations, annotationErr, progress>>

Init ==
    /\ args \in SeqsUpTo(RunIDs, 1)
    /\ stdoutTTY \in BOOLEAN
    /\ stdinTTY \in BOOLEAN
    /\ runFSet \in BOOLEAN
    /\ opts \in [RunID : {""}, Verbose : BOOLEAN, ExitStatus : BOOLEAN,
                 Prompt : {FALSE}, ShowProgress : {FALSE}]
    /\ failureClass \in FailureClasses
    /\ pc = "RunE"
    /\ runID = ""
    /\ run = NoRun
    /\ jobs = << >>
    /\ jobIdx = 0
    /\ annotations = << >>
    /\ annotationErr = FALSE
    /\ progress = FALSE
    /\ calls = << >>
    /\ out = << >>
    /\ ret = NotReturned

Next ==
    \/ RunE
    \/ CallHttpClient
    \/ CallBaseRepo
    \/ SelectRun
    \/ FetchRun
    \/ FetchJobs
    \/ FetchAnnotations
    \/ FinishRetrieval
    \/ Render

Spec == Init /\ [][Next]_vars

\* renderRun as a function of its arguments: every options value, run, job list and
\* annotation list within the bounds, at the point where renderRun is entered
InitRender ==
    /\ args = << >>
    /\ stdoutTTY = FALSE
    /\ stdinTTY = FALSE
    /\ runFSet = FALSE
    /\ opts \in [RunID : {"r1"}, Verbose : BOOLEAN, ExitStatus : BOOLEAN,
                 Prompt : {FALSE}, ShowProgress : {FALSE}]
    /\ failureClass \in FailureClasses
    /\ pc = "renderRun"
    /\ runID = "r1"
    /\ run \in {r \in Run : r.ID = "r1"}
    /\ jobs \in SeqsUpTo(Job, MaxJobs)
    /\ jobIdx = Len(jobs) + 1
    /\ annotations \in SeqsUpTo(AnnValues, MaxAnn)
    /\ annotationErr = FALSE
    /\ progress = FALSE
    /\ calls = << >>
    /\ out = << >>
    /\ ret = NotReturned

SpecRender == InitRender /\ [][Render]_vars
\* ================================================================ claims
Terminal == stdoutTTY /\ stdinTTY
Retrieval == {"GetRun", "GetJobs", "GetAnnotations"}
Collaborators == {"HttpClient", "BaseRepo", "PromptForRun"} \cup Retrieval
CallsOf(fn) == {i \in DOMAIN calls : calls[i].fn = fn}
FailedCalls(fns) == {i \in DOMAIN calls : calls[i].fn \in fns /\ ~calls[i].ok}
Kinds(ls) == {ls[i].kind : i \in DOMAIN ls}
Returned == pc = "done"

\* C1: an invocation without a run-id argument in a non-interactive session
\* returns the usage error, and no collaborator, runView or runF has been entered.
C1_UsageErrorBeforeAnyCall ==
    (Len(args) = 0 /\ ~Terminal) =>
        /\ calls = << >>
        /\ pc \in {"RunE", "done"}
        /\ Returned => ret = FlagError
        /\ out = << >>

C1_Witness ==
    /\ Len(args) = 0
    /\ stdoutTTY /\ ~stdinTTY
    /\ Returned
    /\ ret = FlagError

\* C2: whenever the indicator was started, it is stopped when rendering begins
\* and when runView has returned, on the error returns too.
C2_NoIndicatorLeak ==
    (pc \in {"renderRun", "done"}) => ~progress

\* C3: renderRun returns the silent-failure signal exactly when exit-status is set
\* and the run's conclusion is failure-class, in both branches; otherwise nil.
C3_SilentErrorIff ==
    Returned =>
        /\ ret \in {SilentError, Nil}
        /\ ret = SilentError <=> (opts.ExitStatus /\ run.Conclusion \in failureClass)

C3_Witness ==
    /\ Returned
    /\ Len(jobs) = 0
    /\ run.Conclusion = "failure"
    /\ opts.ExitStatus
    /\ ret = SilentError

\* C4: once GetAnnotations has failed for a job, no further call is made,
\* renderRun is not called, nothing is written, and the command returns the
\* error wrapped as "failed to get annotations".
C4_AnnotationFailureAborts ==
    \A i \in FailedCalls({"GetAnnotations"}) :
        /\ i = Len(calls)
        /\ out = << >>
        /\ pc \in {"AfterLoop", "done"}
        /\ Returned => /\ ret.kind = "wrapped"
                       /\ ret.ctx = "failed to get annotations"

C4_Witness ==
    /\ Returned
    /\ FailedCalls({"GetAnnotations"}) # {}
    /\ Len(annotations) > 0
    /\ ret.ctx = "failed to get annotations"
\* C5: with zero jobs and conclusion "failure", renderRun writes the header, the
\* workflow-file-issue message and the run URL line and stops; no JOBS header,
\* job, step, ANNOTATIONS, annotation or footer line is written. For every
\* other input the JOBS header and the footer are written.
C5_EmptyJobsBranch ==
    Returned =>
        IF Len(jobs) = 0 /\ run.Conclusion = "failure"
        THEN /\ {"header", "issue", "moreinfo"} \subseteq Kinds(out)
             /\ out[Len(out)].kind = "moreinfo"
             /\ Kinds(out) \cap {"JOBS", "job", "step", "ANNOTATIONS", "annotation",
                                 "location", "hint", "viewOnGitHub"} = {}
        ELSE /\ {"header", "JOBS", "hint", "viewOnGitHub"} \subseteq Kinds(out)
             /\ Kinds(out) \cap {"issue", "moreinfo"} = {}

C5_Witness ==
    /\ Returned
    /\ Len(jobs) = 0
    /\ run.Conclusion = "failure"
    /\ Len(annotations) > 0
    /\ "issue" \in Kinds(out)

\* C6: in the normal branch the job lines appear once each, in retrieval order;
\* a job whose conclusion is failure-class, or any job under verbose, is followed
\* directly by one line per step, in the steps' order; any other job is followed
\* by no step line.
JobLineAt == {p \in DOMAIN out : out[p].kind = "job"}
NthJobLine(n) == CHOOSE p \in JobLineAt : Cardinality({q \in JobLineAt : q < p}) = n - 1
C6_Expanded(n) == opts.Verbose \/ jobs[n].Conclusion \in failureClass
C6_StepsInOrder ==
    (Returned /\ "JOBS" \in Kinds(out)) =>
        /\ Cardinality(JobLineAt) = Len(jobs)
        /\ \A n \in DOMAIN jobs :
             LET p == NthJobLine(n)
                 steps == jobs[n].Steps
                 shown == IF C6_Expanded(n) THEN Len(steps) ELSE 0
             IN /\ out[p].text = <<jobs[n].Conclusion>> \o steps
                /\ \A k \in 1..shown : /\ out[p + k].kind = "step"
                                       /\ out[p + k].text = <<steps[k]>>
                /\ out[p + shown + 1].kind # "step"

C6_Witness ==
    /\ Returned
    /\ ~opts.Verbose
    /\ Len(jobs) = 2
    /\ jobs[1] = [Conclusion |-> "success", Steps |-> <<"s2", "s1">>]
    /\ jobs[2] = [Conclusion |-> "failure", Steps |-> <<"s2", "s1">>]
    /\ Cardinality({p \in DOMAIN out : out[p].kind = "step"}) = 2

\* C7: with an argument the run ID is the argument and no prompt is made; with
\* no argument in an interactive session a prompt is requested and the run
\* fetched is the one the prompt answered; with no argument otherwise, the usage
\* error. PromptForRun is called only in the second case, and after it
\* fails nothing is fetched.
C7_InputResolution ==
    (pc # "RunE") =>
        /\ Len(args) > 0 =>
             /\ opts.RunID = args[1]
             /\ ~opts.Prompt
             /\ ret # FlagError
             /\ \A i \in CallsOf("GetRun") : calls[i].id = args[1]
        /\ (Len(args) = 0 /\ Terminal) =>
             /\ opts.Prompt
             /\ ret # FlagError
             /\ \A i \in CallsOf("GetRun") :
                  \E j \in CallsOf("PromptForRun") :
                      j < i /\ calls[j].ok /\ calls[j].id = calls[i].id
        /\ (Len(args) = 0 /\ ~Terminal) => (Returned /\ ret = FlagError)
        /\ CallsOf("PromptForRun") # {} => (Len(args) = 0 /\ Terminal)
        /\ \A j \in FailedCalls({"PromptForRun"}) : j = Len(calls) /\ Returned

C7_Witness ==
    /\ Returned
    /\ Len(args) = 0
    /\ Terminal
    /\ \E i \in CallsOf("GetRun") : calls[i].id = "r2"

\* C8: GetRun is called at most once and first; GetJobs at most once and only
\* after GetRun succeeded; GetAnnotations once per job, in job order, only after
\* GetJobs succeeded; after a failing retrieval call no further call is made, and
\* output is written only when every retrieval call succeeded.
C8_OrderedFailFast ==
    /\ Cardinality(CallsOf("GetRun")) <= 1
    /\ Cardinality(CallsOf("GetJobs")) <= 1
    /\ \A i \in CallsOf("GetJobs") :
         \E j \in CallsOf("GetRun") : j < i /\ calls[j].ok
    /\ \A i \in CallsOf("GetAnnotations") :
         /\ \E j \in CallsOf("GetJobs") : j < i /\ calls[j].ok
         /\ calls[i].job \in DOMAIN jobs
         /\ calls[i].job = Cardinality({j \in CallsOf("GetAnnotations") : j <= i})
    /\ \A i \in FailedCalls(Retrieval) : i = Len(calls)
    /\ out # << >> =>
         /\ FailedCalls(Retrieval) = {}
         /\ CallsOf("GetRun") # {}
         /\ CallsOf("GetJobs") # {}
         /\ Cardinality(CallsOf("GetAnnotations")) = Len(jobs)
         /\ calls[Len(calls)].fn = "renderRun"

C8_Witness ==
    /\ Returned
    /\ out # << >>
    /\ Len(jobs) = 2
    /\ Cardinality(CallsOf("GetAnnotations")) = 2

\* C9: the empty-jobs branch, the step expansion and the exit-status decision
\* agree on every conclusion: a run with zero jobs takes the empty-jobs branch
\* exactly when its conclusion is failure-class.
C9_SharedFailurePredicate ==
    (Returned /\ Len(jobs) = 0) =>
        ("issue" \in Kinds(out) <=> run.Conclusion \in failureClass)

\* C10 as stated: every collaborator error is returned at once and wrapped with
\* stage context; none reaches the caller unwrapped.
C10_EveryErrorWrapped ==
    \A i \in FailedCalls(Collaborators) :
        /\ i = Len(calls)
        /\ Returned => ret.kind = "wrapped"

StageContext(fn) ==
    CASE fn = "HttpClient" -> "failed to create http client"
      [] fn = "BaseRepo" -> "failed to determine base repo"
      [] fn = "GetRun" -> "failed to get run"
      [] fn = "GetJobs" -> "failed to get jobs"
      [] fn = "GetAnnotations" -> "failed to get annotations"

\* C10 amended: an error of the HTTP client factory, the base-repository
\* resolver, GetRun, GetJobs or GetAnnotations is returned wrapped with its
\* stage's context; an error of PromptForRun is returned as it is; in each case
\* no later collaborator is called.
C10_ErrorsWrappedExceptPrompt ==
    \A i \in FailedCalls(Collaborators) :
        /\ i = Len(calls)
        /\ pc \in {"AfterLoop", "done"}
        /\ Returned =>
             IF calls[i].fn = "PromptForRun"
             THEN ret = CollabErr("PromptForRun")
             ELSE /\ ret.kind = "wrapped"
                  /\ ret.ctx = StageContext(calls[i].fn)
                  /\ ret.cause = calls[i].fn

C10_Witness ==
    /\ Returned
    /\ FailedCalls({"GetJobs"}) # {}
    /\ ret.kind = "wrapped"
    /\ ret.ctx = "failed to get jobs"
====
